---- MODULE Spec2Model ----
(***************************************************************************)
(* gdenv-lib/src/addons.rs: the filtered recursive copy of an addon's      *)
(* source tree into the project tree (sync_recursive) and the fan-out over *)
(* the addons of a project specification (sync_addons).                    *)
(*                                                                         *)
(* A path is the sequence of its components (std::path::Path compares      *)
(* paths component by component).  The file system is a function from the  *)
(* paths that exist to their entries; an entry has a kind, bytes and the   *)
(* owner's permission bits.  The process is the owner of every entry and   *)
(* has no privilege that overrides the permission bits.                    *)
(*                                                                         *)
(* Three specifications:                                                   *)
(*   SpecSync    a caller calls sync_recursive directly, MaxCalls times in *)
(*               a row with the same arguments, on a source tree and a     *)
(*               destination tree that lie side by side, or with the       *)
(*               source base as the destination base;                      *)
(*   SpecFilter  steps 1 and 2 of the loop body of sync_recursive at an    *)
(*               entry of any relative path;                               *)
(*   Spec        sync_addons runs over the addons of a specification,      *)
(*               calling sync_recursive for each; an addon without a path  *)
(*               has the working directory, which holds the project tree,  *)
(*               as its source, and a project path of "." makes the        *)
(*               working directory the destination.                        *)
(***************************************************************************)
EXTENDS Naturals, Sequences, FiniteSets, TLC

(***************************************************************************)
(* Bounds of the model.                                                    *)
(***************************************************************************)
\* size of a scenario: the leaves (files, empty directories) of the source
\* trees, the permission bits cleared in the source and destination trees,
\* the leaves of the destination tree and the entries of the include and
\* exclude lists, counted together
MaxSize == 3
\* direct calls of sync_recursive in a row (SpecSync)
MaxCalls == 2
\* addons of a project specification (Spec)
MaxAddons == 2
\* the longest path name the system accepts (PATH_MAX), in components
PathMax == 3

\* component names; the text "addons" is a prefix of the text "addons2"
Comp == {"addons", "addons2"}

\* relative paths: the root of a tree, and the paths of one or two components
RelPaths == {<<>>} \cup {<<c>> : c \in Comp} \cup {<<c, d>> : c \in Comp, d \in Comp}
NonRoot == RelPaths \ {<<>>}

\* Option<&[PathBuf]>: None, or Some of a list.  The list is read only by
\* iter().any(..), so it is modelled by the set of its entries.
None == [some |-> FALSE, list |-> {}]
Some(l) == [some |-> TRUE, list |-> l]

(***************************************************************************)
(* Paths                                                                   *)
(***************************************************************************)
\* working_dir of sync_addons: the root of the modelled file system
WorkingDir == <<>>
\* the project directory beside the addon repositories
ProjectPath == <<"project">>
\* addon_spec.path of the i-th addon, when it has one
RepoNames == <<"repo1", "repo2", "repo3", "repo4", "repo5", "repo6">>
RepoPath(i) == <<RepoNames[i]>>

\* Path::join of a relative path
Join(base, rel) == base \o rel

\* Path::parent
Parent(p) == SubSeq(p, 1, Len(p) - 1)

\* a prefix test on the text of one component
RawPrefix(c, d) == c = d \/ (c = "addons" /\ d = "addons2")

\* faulty variant of StartsWith: a prefix test on the path's text, not on its components
StartsWithRaw(p, base) ==
    IF base = <<>> THEN TRUE
    ELSE IF Len(base) > Len(p) THEN FALSE
    ELSE /\ \A i \in 1..(Len(base) - 1) : p[i] = base[i]
         /\ RawPrefix(base[Len(base)], p[Len(base)])

\* Path::starts_with: base's components are consumed against p's, one by one
RECURSIVE IterAfter(_, _)
IterAfter(p, base) ==
    IF base = <<>> THEN TRUE
    ELSE IF p = <<>> THEN FALSE
    ELSE Head(p) = Head(base) /\ IterAfter(Tail(p), Tail(base))

StartsWith(p, base) == IterAfter(p, base)

\* Path::strip_prefix: Ok(the rest) or Err
StripPrefix(p, base) ==
    IF StartsWith(p, base)
    THEN [ok |-> TRUE, rel |-> SubSeq(p, Len(base) + 1, Len(p))]
    ELSE [ok |-> FALSE, rel |-> <<>>]

(***************************************************************************)
(* File system                                                             *)
(***************************************************************************)
\* the owner's permission bits.  On a file: r, it can be opened for
\* reading; w, for writing.  On a directory: r, it can be listed; w,
\* entries can be made in it; x, the paths through it can be resolved.
DirMode == {"r", "w", "x"}
FileMode == {"r", "w"}

Dir(m) == [kind |-> "dir", data |-> <<>>, mode |-> m]
File(d, m) == [kind |-> "file", data |-> d, mode |-> m]

\* the ancestors of p, and p itself
Prefixes(p) == {SubSeq(p, 1, n) : n \in 0..Len(p)}

\* every directory on the way to p can be searched
Searchable(f, p) ==
    \A q \in Prefixes(p) \ {p} : q \in DOMAIN f => "x" \in f[q].mode

\* fs::metadata(p).is_ok()
Stat(f, p) == p \in DOMAIN f /\ Searchable(f, p)

\* Path::exists, Path::is_dir: metadata, with every error turned into false
Exists(f, p) == Stat(f, p)
IsDir(f, p) == IF Stat(f, p) THEN f[p].kind = "dir" ELSE FALSE
IsFile(f, p) == IF Stat(f, p) THEN f[p].kind = "file" ELSE FALSE

\* fs::read_dir(p) succeeds
CanList(f, p) == IF IsDir(f, p) THEN "r" \in f[p].mode ELSE FALSE

\* an entry can be made in the directory d
CanCreateIn(f, d) == IF IsDir(f, d) THEN {"w", "x"} \subseteq f[d].mode ELSE FALSE

Put(f, p, e) == [q \in DOMAIN f \cup {p} |-> IF q = p THEN e ELSE f[q]]

\* the nearest ancestor of p that exists
Nearest(f, p) ==
    LET n == CHOOSE n \in 0..Len(p) :
                /\ SubSeq(p, 1, n) \in DOMAIN f
                /\ \A m \in (n + 1)..Len(p) : SubSeq(p, 1, m) \notin DOMAIN f
    IN SubSeq(p, 1, n)

\* fs::create_dir_all fails: p is there and is no directory the process can
\* see, p is too long a name, or the first missing directory cannot be made
CreateDirAllFails(f, p) ==
    IF p \in DOMAIN f THEN ~IsDir(f, p)
    ELSE Len(p) > PathMax \/ ~CanCreateIn(f, Nearest(f, p))

\* faulty variant of CreateDirAll: the directory is made afresh, what it held is gone
CreateDirFresh(f, p) ==
    IF CreateDirAllFails(f, p)
    THEN [ok |-> FALSE, fs |-> f]
    ELSE [ok |-> TRUE,
          fs |-> [q \in {q \in DOMAIN f : q = p \/ ~StartsWith(q, p)} \cup Prefixes(p) |->
                    IF q \in DOMAIN f THEN f[q] ELSE Dir(DirMode)]]

\* fs::create_dir_all: Ok when p is a directory; otherwise every missing
\* directory down to p is made, or, on failure, none
CreateDirAll(f, p) ==
    IF CreateDirAllFails(f, p)
    THEN [ok |-> FALSE, fs |-> f]
    ELSE [ok |-> TRUE,
          fs |-> [q \in DOMAIN f \cup Prefixes(p) |-> IF q \in DOMAIN f THEN f[q] ELSE Dir(DirMode)]]

\* fs::copy fails: the source cannot be opened for reading, or the
\* destination cannot be opened for writing (it is a directory or a
\* read-only file) or made (its directory is missing or closed, its name too
\* long)
CopyFails(f, from, to) ==
    IF ~IsFile(f, from) THEN TRUE
    ELSE IF "r" \notin f[from].mode THEN TRUE
    ELSE IF to \in DOMAIN f THEN ~IsFile(f, to) \/ "w" \notin f[to].mode
    ELSE Len(to) > PathMax \/ ~CanCreateIn(f, Parent(to))

\* faulty variant of Copy: an existing destination file is kept
CopyKeep(f, from, to) ==
    IF CopyFails(f, from, to) THEN [ok |-> FALSE, fs |-> f]
    ELSE IF to \in DOMAIN f THEN [ok |-> TRUE, fs |-> f]
    ELSE [ok |-> TRUE, fs |-> Put(f, to, File(f[from].data, f[from].mode))]

\* faulty variant of Copy: the bytes are appended to an existing destination file
CopyAppend(f, from, to) ==
    IF CopyFails(f, from, to) THEN [ok |-> FALSE, fs |-> f]
    ELSE IF to \in DOMAIN f
         THEN [ok |-> TRUE, fs |-> Put(f, to, File(f[to].data \o f[from].data, f[from].mode))]
    ELSE [ok |-> TRUE, fs |-> Put(f, to, File(f[from].data, f[from].mode))]

\* fs::copy(from, to): the source is opened for reading, then the destination
\* is created or truncated, and then it receives the source's bytes and
\* permission bits.  The truncation comes before the first byte is read: a
\* file copied onto itself is left empty.
Copy(f, from, to) ==
    IF CopyFails(f, from, to) THEN [ok |-> FALSE, fs |-> f]
    ELSE [ok |-> TRUE,
          fs |-> Put(f, to, File(IF from = to THEN <<>> ELSE f[from].data, f[from].mode))]

(***************************************************************************)
(* WalkDir                                                                 *)
(***************************************************************************)
\* the entries of the directory d
Children(f, d) == {p \in DOMAIN f : Len(p) = Len(d) + 1 /\ Parent(p) = d}

\* the orders a set of paths can be listed in
Perms(S) ==
    {s \in [1..Cardinality(S) -> S] : \A i, j \in 1..Cardinality(S) : i # j => s[i] # s[j]}

Range(s) == {s[i] : i \in DOMAIN s}

\* no directory has been listed yet
NoneSeen == [d \in {} |-> <<>>]

\* fs::read_dir(d): the entries of d in the order the file system gives
\* them, which is any order, but the same order as long as d holds the same
\* entries (seen: the listings given so far)
ReadDir(f, seen, d) ==
    IF d \in DOMAIN seen
    THEN IF Range(seen[d]) = Children(f, d) THEN {seen[d]} ELSE Perms(Children(f, d))
    ELSE Perms(Children(f, d))

Remember(seen, d, listing) ==
    [q \in DOMAIN seen \cup {d} |-> IF q = d THEN listing ELSE seen[q]]

\* the iterator's stack: the root still to be visited ("root"), a directory
\* opened and not yet read ("open"), one that failed to open ("err"), or
\* the rest of a directory's listing ("list")
Frame(tag, p, rest) == [tag |-> tag, path |-> p, rest |-> rest]

\* WalkDir::new(root).into_iter()
IntoIter(root, seen) == [stack |-> <<Frame("root", root, <<>>)>>, seen |-> seen]

\* an entry is yielded: a directory is opened for listing before the entry
\* is handed out, and a failure to open it is the iterator's next item
Push(f, stk, p) ==
    IF f[p].kind = "dir"
    THEN Append(stk, Frame(IF CanList(f, p) THEN "open" ELSE "err", p, <<>>))
    ELSE stk

Item(kind, p, stk, seen) == [item |-> kind, path |-> p, it |-> [stack |-> stk, seen |-> seen]]

\* Iterator::next of walkdir::IntoIter on the file system f: the item
\* (Ok(entry), Err, or None at the end) and the iterator after it.  The
\* entries come in depth-first pre-order; a directory opened when its entry
\* was yielded is read when the iterator is next asked.  A root whose
\* metadata cannot be read is one Err item.
RECURSIVE WalkNext(_, _)
WalkNext(f, it) ==
    IF it.stack = <<>> THEN {Item("end", <<>>, <<>>, it.seen)}
    ELSE LET top == it.stack[Len(it.stack)]
             below == SubSeq(it.stack, 1, Len(it.stack) - 1)
         IN IF top.tag = "root"
            THEN IF Stat(f, top.path)
                 THEN {Item("ok", top.path, Push(f, <<>>, top.path), it.seen)}
                 ELSE {Item("err", top.path, <<>>, it.seen)}
            ELSE IF top.tag = "err"
            THEN {Item("err", top.path, below, it.seen)}
            ELSE IF top.tag = "open"
            THEN UNION {WalkNext(f, [stack |-> Append(below, Frame("list", top.path, l)),
                                     seen |-> Remember(it.seen, top.path, l)]) :
                            l \in ReadDir(f, it.seen, top.path)}
            ELSE IF top.rest = <<>>
            THEN WalkNext(f, [stack |-> below, seen |-> it.seen])
            ELSE {Item("ok", Head(top.rest),
                       Push(f, Append(below, Frame("list", top.path, Tail(top.rest))), Head(top.rest)),
                       it.seen)}

\* faulty variant of FilterMapOk: the iteration ends at the first Err item
RECURSIVE FilterMapUntilErr(_, _)
FilterMapUntilErr(f, it) ==
    UNION {IF n.item = "err" THEN {Item("end", <<>>, <<>>, n.it.seen)} ELSE {n} : n \in WalkNext(f, it)}

\* .filter_map(|e| e.ok()): next() of the filtered iterator; the Err items
\* are dropped
RECURSIVE FilterMapOk(_, _)
FilterMapOk(f, it) ==
    UNION {IF n.item = "err" THEN FilterMapOk(f, n.it) ELSE {n} : n \in WalkNext(f, it)}

(***************************************************************************)
(* The filter of sync_recursive                                            *)
(***************************************************************************)
\* 1. Check Excludes
IsExcluded(rel, excludes) ==
    excludes.some /\ \E ex \in excludes.list : StartsWith(rel, ex)

\* faulty variant of IsIncluded: only the entries inside an include pass
IsIncludedInside(rel, includes) ==
    ~includes.some \/ \E inc \in includes.list : StartsWith(rel, inc)

\* 2. Check Includes (is_included, or no include list)
IsIncluded(rel, includes) ==
    ~includes.some \/ \E inc \in includes.list : StartsWith(rel, inc) \/ StartsWith(inc, rel)

\* faulty variant of Passes: an include entry that contains the path overrides the excludes
PassesIncludeFirst(rel, includes, excludes) ==
    \/ includes.some /\ \E inc \in includes.list : StartsWith(rel, inc)
    \/ ~IsExcluded(rel, excludes) /\ IsIncluded(rel, includes)

\* faulty variant of Passes: the exclude list is tested for equality, not for a prefix
PassesExcludeExact(rel, includes, excludes) ==
    ~(excludes.some /\ rel \in excludes.list) /\ IsIncluded(rel, includes)

\* an entry reaches step 3 (Perform Copy)
Passes(rel, includes, excludes) ==
    ~IsExcluded(rel, excludes) /\ IsIncluded(rel, includes)

\* 3. Perform Copy: what it does to the file system, and whether it fails.
\* target_path is dest_base.join(rel): with an empty rel (the entry is the
\* source root) it is dest_base with a trailing separator, which names a
\* directory: create_dir_all takes it, fs::copy cannot open it as a file.
PerformCopy(f, path, dest_base, rel) ==
    IF IsDir(f, path)
    THEN CreateDirAll(f, Join(dest_base, rel))
    ELSE LET made == CreateDirAll(f, Parent(Join(dest_base, rel)))
         IN IF ~made.ok THEN made
            ELSE IF rel = <<>> THEN [ok |-> FALSE, fs |-> made.fs]
            ELSE Copy(made.fs, path, Join(dest_base, rel))

(***************************************************************************)
(* Inputs: source trees, destination trees, rule lists                     *)
(***************************************************************************)
Related(p, q) == StartsWith(p, q) \/ StartsWith(q, p)

\* sets of at most n leaves, none below another
LeafSets(n) ==
    {L \in SUBSET NonRoot : Cardinality(L) <= n /\ \A p, q \in L : p # q => ~Related(p, q)}

Kinds(L) == [L -> {"file", "dir"}]

\* the shapes of a tree: its leaves, each a file or an empty directory
Shapes(leafsets) == UNION {{[leaves |-> L, kinds |-> k] : k \in Kinds(L)} : L \in leafsets}

\* the tree that is one file
RootFile == [leaves |-> {<<>>}, kinds |-> [p \in {<<>>} |-> "file"]]

\* the root of a tree with leaves L, and every entry down to a leaf
EntriesOf(L) == UNION {Prefixes(q) : q \in L} \cup {<<>>}

IsFileOf(sh, p) == IF p \in sh.leaves THEN sh.kinds[p] = "file" ELSE FALSE

\* the permission bits that matter on the source side (a file is read and
\* its bits are copied, a directory is listed and searched) and on the
\* destination side (a file is written, a directory is searched and gets
\* entries)
SourceBits(sh) ==
    {pb \in EntriesOf(sh.leaves) \X {"r", "w", "x"} :
        IF IsFileOf(sh, pb[1]) THEN pb[2] \in {"r", "w"} ELSE pb[2] \in {"r", "x"}}
DestBits(sh) ==
    {pb \in EntriesOf(sh.leaves) \X {"r", "w", "x"} :
        IF IsFileOf(sh, pb[1]) THEN pb[2] = "w" ELSE pb[2] \in {"w", "x"}}

\* at most n of the bits cleared
Cleared(bits, n) == {u \in SUBSET bits : Cardinality(u) <= n}

\* the tree of a shape (its files holding d) with the bits u cleared
TreeOf(sh, u, d) ==
    [p \in EntriesOf(sh.leaves) |->
        IF IsFileOf(sh, p) THEN File(d, {b \in FileMode : <<p, b>> \notin u})
        ELSE Dir({b \in DirMode : <<p, b>> \notin u})]

\* a base directory that does not exist
NoTree == [p \in {} |-> Dir(DirMode)]

\* what is left of a scenario's size
Left(n, used) == IF used >= n THEN 0 ELSE n - used

Sized(tree, size) == [tree |-> tree, size |-> size]

\* source trees of size (leaves and cleared bits) at most n, a missing
\* source and a source that is one file among them
SourceTrees(shapes, n, d) ==
    {Sized(NoTree, 0)} \cup
    UNION {{Sized(TreeOf(sh, u, d), Cardinality(sh.leaves) + Cardinality(u)) :
                u \in Cleared(SourceBits(sh), Left(n, Cardinality(sh.leaves)))} :
           sh \in {sh \in shapes \cup {RootFile} : Cardinality(sh.leaves) <= n}}

\* destination trees of size (leaves and cleared bits) at most n, a missing
\* destination directory among them; their files hold bytes no source file
\* holds
DestTreesOf(shapes, n) ==
    {Sized(NoTree, 0)} \cup
    UNION {{Sized(TreeOf(sh, u, <<"old">>), Cardinality(sh.leaves) + Cardinality(u)) :
                u \in Cleared(DestBits(sh), Left(n, Cardinality(sh.leaves)))} :
           sh \in {sh \in shapes : Cardinality(sh.leaves) <= n}}

\* Option<&[PathBuf]> of at most n entries
RuleOptsOf(n) == {None} \cup {Some(R) : R \in {R \in SUBSET RelPaths : Cardinality(R) <= n}}

\* the file system with a tree at base; the working directory stays as it is
Mount(f, base, tree) ==
    [p \in DOMAIN f \cup {Join(base, r) : r \in DOMAIN tree} |->
        IF p = WorkingDir THEN f[p]
        ELSE IF ~StartsWith(p, base) THEN f[p]
        ELSE IF StripPrefix(p, base).rel \in DOMAIN tree THEN tree[StripPrefix(p, base).rel]
        ELSE f[p]]

EmptyFs == [p \in {WorkingDir} |-> Dir(DirMode)]

(***************************************************************************)
(* State                                                                   *)
(***************************************************************************)
VARIABLES
    fs,      \* the file system: the paths that exist -> their entries
    addons,  \* project_spec.addons, in iteration order
    project_path,  \* project_spec.project_path
    idx,     \* sync_addons: the addon the for loop is at
    result,  \* sync_addons: "running", or its return value "ok" / "err"
    req,     \* sync_recursive: its arguments
    stack,   \* sync_recursive: the iterator's stack
    seen,    \* the directory listings the file system has given
    walk,    \* sync_recursive: the entries the for loop has come to, each
             \* with what became of it ("at": the body is about to run)
    pc,      \* "idle", "loop", "walk", "end", "continue", "copy", "returned", "done"
    ret,     \* sync_recursive: "none", or its return value "ok" / "err"
    pre,     \* history: fs when the current sync_recursive call began
    calls    \* history: the calls of sync_recursive made (the addon's index, 0 if direct)

vars == <<fs, addons, project_path, idx, result, req, stack, seen, walk, pc, ret, pre, calls>>

AllShapes == Shapes(LeafSets(MaxSize))
Repo1Trees == SourceTrees(AllShapes, MaxSize, <<"repo1">>)
DestTrees == DestTreesOf(AllShapes, MaxSize)
RuleOpts == [n \in 0..MaxSize |-> RuleOptsOf(n)]

\* the destination bases of a direct call: the project directory beside the
\* source or, when there is no project directory, the source base itself
DestBases(d) == IF d.tree = NoTree THEN {ProjectPath, RepoPath(1)} ELSE {ProjectPath}

\* a caller about to call sync_recursive directly, in a scenario (a source
\* tree, a destination tree, the two rule lists) of size MaxSize at most
InitSync ==
    /\ \E s \in Repo1Trees : \E d \in DestTrees :
         /\ s.size + d.size <= MaxSize
         /\ \E inc \in RuleOpts[Left(MaxSize, s.size + d.size)] :
            \E exc \in RuleOpts[Left(MaxSize, s.size + d.size + Cardinality(inc.list))] :
            \E dest \in DestBases(d) :
              /\ fs = Mount(Mount(EmptyFs, RepoPath(1), s.tree), ProjectPath, d.tree)
              /\ req = [source_base |-> RepoPath(1), dest_base |-> dest,
                        includes |-> inc, excludes |-> exc]
    /\ addons = <<>>
    /\ project_path = ProjectPath
    /\ idx = 0
    /\ result = "running"
    /\ stack = <<>>
    /\ seen = NoneSeen
    /\ walk = <<>>
    /\ pc = "idle"
    /\ ret = "none"
    /\ pre = fs
    /\ calls = <<>>

(***************************************************************************)
(* sync_recursive                                                          *)
(***************************************************************************)
\* the for loop asks the iterator for its next entry and has the entry n,
\* or has none and is over; hist: the entries it came to before
Arrive(hist, n) ==
    /\ walk' = (IF n.item = "ok" THEN Append(hist, [path |-> n.path, out |-> "at"]) ELSE hist)
    /\ pc' = (IF n.item = "ok" THEN "walk" ELSE "end")
    /\ stack' = n.it.stack
    /\ seen' = n.it.seen

\* entry of the function: the iterator is built and asked for its first entry
Enter(r, who) ==
    /\ req' = r
    /\ \E n \in FilterMapOk(fs, IntoIter(r.source_base, seen)) : Arrive(<<>>, n)
    /\ ret' = "none"
    /\ pre' = fs
    /\ calls' = Append(calls, who)

\* a direct call, and the same call again
CallSync ==
    /\ pc \in {"idle", "returned"}
    /\ Len(calls) < MaxCalls
    /\ Enter(req, 0)
    /\ UNCHANGED <<fs, addons, project_path, idx, result>>

AtEntry == pc = "walk"
Path == walk[Len(walk)].path
Rel == StripPrefix(Path, req.source_base)
Target == Join(req.dest_base, Rel.rel)

\* the entry the loop is at, with what became of it
Mark(out) == [walk EXCEPT ![Len(walk)].out = out]

\* the body is over for this entry: the next one, on the file system g
Continue(out, g) ==
    /\ \E n \in FilterMapOk(g, [stack |-> stack, seen |-> seen]) : Arrive(Mark(out), n)
    /\ UNCHANGED <<addons, project_path, idx, result, req, ret, pre, calls>>

\* the entry is filtered out: continue
SkipEntry ==
    /\ AtEntry
    /\ Rel.ok
    /\ ~Passes(Rel.rel, req.includes, req.excludes)
    /\ fs' = fs
    /\ Continue("skip", fs)

\* the entry passes and is created or copied
CopyEntry ==
    /\ AtEntry
    /\ Rel.ok
    /\ Passes(Rel.rel, req.includes, req.excludes)
    /\ PerformCopy(fs, Path, req.dest_base, Rel.rel).ok
    /\ fs' = PerformCopy(fs, Path, req.dest_base, Rel.rel).fs
    /\ Continue("copy", PerformCopy(fs, Path, req.dest_base, Rel.rel).fs)

\* strip_prefix, create_dir_all or copy fails
EntryFails ==
    IF Rel.ok
    THEN Passes(Rel.rel, req.includes, req.excludes)
         /\ ~PerformCopy(fs, Path, req.dest_base, Rel.rel).ok
    ELSE TRUE

\* faulty variant of FailEntry: the failure is passed over and the loop goes on
FailEntryGoOn ==
    /\ AtEntry
    /\ EntryFails
    /\ fs' = (IF Rel.ok THEN PerformCopy(fs, Path, req.dest_base, Rel.rel).fs ELSE fs)
    /\ Continue("fail", IF Rel.ok THEN PerformCopy(fs, Path, req.dest_base, Rel.rel).fs ELSE fs)

\* the ? operator returns the error; what was written stays
FailEntry ==
    /\ AtEntry
    /\ EntryFails
    /\ fs' = (IF Rel.ok THEN PerformCopy(fs, Path, req.dest_base, Rel.rel).fs ELSE fs)
    /\ walk' = Mark("fail")
    /\ pc' = "returned"
    /\ ret' = "err"
    /\ UNCHANGED <<addons, project_path, idx, result, req, stack, seen, pre, calls>>

\* the iterator is exhausted: Ok(())
ReturnOk ==
    /\ pc = "end"
    /\ pc' = "returned"
    /\ ret' = "ok"
    /\ UNCHANGED <<fs, addons, project_path, idx, result, req, stack, seen, walk, pre, calls>>

NextSync == CallSync \/ SkipEntry \/ CopyEntry \/ FailEntry \/ ReturnOk

SpecSync == InitSync /\ [][NextSync]_vars

(***************************************************************************)
(* The filter of sync_recursive on its own: steps 1 and 2 of the loop body *)
(* at an entry of any relative path, under any two rule lists              *)
(***************************************************************************)
InitFilter ==
    /\ \E inc \in RuleOpts[MaxSize] :
       \E exc \in RuleOpts[Left(MaxSize, Cardinality(inc.list))] :
         req = [source_base |-> RepoPath(1), dest_base |-> ProjectPath,
                includes |-> inc, excludes |-> exc]
    /\ \E p \in RelPaths : walk = <<[path |-> Join(RepoPath(1), p), out |-> "at"]>>
    /\ fs = EmptyFs
    /\ addons = <<>>
    /\ project_path = ProjectPath
    /\ idx = 0
    /\ result = "running"
    /\ stack = <<>>
    /\ seen = NoneSeen
    /\ pc = "walk"
    /\ ret = "none"
    /\ pre = fs
    /\ calls = <<0>>

\* an exclude matches, or the include list is present and none matches: continue
FilterReject ==
    /\ AtEntry
    /\ Rel.ok
    /\ ~Passes(Rel.rel, req.includes, req.excludes)
    /\ pc' = "continue"
    /\ UNCHANGED <<fs, addons, project_path, idx, result, req, stack, seen, walk, ret, pre, calls>>

\* neither continue is taken: the entry is at step 3
FilterAccept ==
    /\ AtEntry
    /\ Rel.ok
    /\ Passes(Rel.rel, req.includes, req.excludes)
    /\ pc' = "copy"
    /\ UNCHANGED <<fs, addons, project_path, idx, result, req, stack, seen, walk, ret, pre, calls>>

NextFilter == FilterReject \/ FilterAccept

SpecFilter == InitFilter /\ [][NextFilter]_vars

(***************************************************************************)
(* sync_addons                                                             *)
(***************************************************************************)
\* the rule lists of a fan-out scenario: None, or (from size 1) one
\* top-level name, as in include = ["addons"]
FanoutRuleOpts(n) == {None} \cup (IF n = 0 THEN {} ELSE {Some({<<c>>}) : c \in Comp})

\* the trees of a fan-out scenario: entries directly in the base directory
ShallowShapes == Shapes({L \in LeafSets(MaxSize) : \A p \in L : Len(p) = 1})

\* the source trees (their files still empty) and the destination trees of
\* a fan-out scenario
FanoutSources == SourceTrees(ShallowShapes, MaxSize, <<>>)
FanoutDests == DestTreesOf(ShallowShapes, MaxSize)

\* an addon of a fan-out scenario: whether its specification has a path,
\* the tree at its source base (which may be missing) and its two rule
\* lists; its size
AddonChoices ==
    {a \in {[path |-> p, tree |-> s.tree, includes |-> inc, excludes |-> exc,
             size |-> s.size + Cardinality(inc.list) + Cardinality(exc.list)] :
                p \in BOOLEAN, s \in FanoutSources,
                inc \in FanoutRuleOpts(MaxSize), exc \in FanoutRuleOpts(MaxSize)} :
        a.size <= MaxSize}

RECURSIVE Sum(_)
Sum(v) == IF v = <<>> THEN 0 ELSE Head(v) + Sum(Tail(v))

\* the sizes of the addons of a scenario, one after the other
AddonSizes ==
    {v \in UNION {[1..n -> 0..MaxSize] : n \in 0..MaxAddons} : Sum(v) <= MaxSize}

\* the lists of addons of these sizes
RECURSIVE AddonRows(_)
AddonRows(sizes) ==
    IF sizes = <<>> THEN {<<>>}
    ELSE {<<a>> \o rest : a \in {c \in AddonChoices : c.size = Head(sizes)},
                          rest \in AddonRows(Tail(sizes))}

\* the tree with the bytes d in its files
Holding(tree, d) ==
    [p \in DOMAIN tree |-> IF tree[p].kind = "file" THEN File(d, tree[p].mode) ELSE tree[p]]

\* addon_spec.path of the i-th addon of a scenario
PathOf(a, i) == IF a.path THEN Some(RepoPath(i)) ELSE None

\* addon_spec.path.as_deref().unwrap_or(".")
AddonPathStr(addon_spec) == IF addon_spec.path.some THEN addon_spec.path.list ELSE <<>>

\* working_dir.join(addon_path_str), working_dir.join(&project_spec.project_path)
SourceBase(addon_spec) == Join(WorkingDir, AddonPathStr(addon_spec))
DestBase == Join(WorkingDir, project_path)

RECURSIVE MountRow(_, _, _)
MountRow(f, row, i) ==
    IF i > Len(row) THEN f
    ELSE MountRow(Mount(f, SourceBase([path |-> PathOf(row[i], i)]),
                        Holding(row[i].tree, <<RepoNames[i]>>)), row, i + 1)

\* project_spec.project_path of a scenario: the project directory or, when
\* there is none, "." (the working directory itself)
ProjectPaths(d) == IF d.tree = NoTree THEN {ProjectPath, <<>>} ELSE {ProjectPath}

\* sync_addons is about to run over the addons of a project specification;
\* the i-th addon's path, if it has one, names RepoPath(i)
Init ==
    /\ \E sizes \in AddonSizes : \E row \in AddonRows(sizes) :
       \E d \in {t \in FanoutDests : t.size <= Left(MaxSize, Sum(sizes))} :
       \E pp \in ProjectPaths(d) :
         /\ fs = Mount(MountRow(EmptyFs, row, 1), ProjectPath, d.tree)
         /\ project_path = pp
         /\ addons = [i \in DOMAIN row |->
                        [path |-> PathOf(row[i], i), include |-> row[i].includes,
                         exclude |-> row[i].excludes]]
    /\ idx = 1
    /\ result = "running"
    /\ req = [source_base |-> <<>>, dest_base |-> <<>>, includes |-> None, excludes |-> None]
    /\ stack = <<>>
    /\ seen = NoneSeen
    /\ walk = <<>>
    /\ pc = "loop"
    /\ ret = "none"
    /\ pre = fs
    /\ calls = <<>>

AtAddon == pc = "loop" /\ idx <= Len(addons)

\* faulty variant of SkipMissing: the loop is left (break) where the code continues
SkipMissingBreak ==
    /\ AtAddon
    /\ ~Exists(fs, SourceBase(addons[idx]))
    /\ idx' = Len(addons) + 1
    /\ UNCHANGED <<fs, addons, project_path, result, req, stack, seen, walk, pc, ret, pre, calls>>

\* the source path does not exist: warn and continue
SkipMissing ==
    /\ AtAddon
    /\ ~Exists(fs, SourceBase(addons[idx]))
    /\ idx' = idx + 1
    /\ UNCHANGED <<fs, addons, project_path, result, req, stack, seen, walk, pc, ret, pre, calls>>

\* sync_recursive(&source_base, &dest_base, include, exclude)
CallAddon ==
    /\ AtAddon
    /\ Exists(fs, SourceBase(addons[idx]))
    /\ Enter([source_base |-> SourceBase(addons[idx]), dest_base |-> DestBase,
              includes |-> addons[idx].include, excludes |-> addons[idx].exclude], idx)
    /\ UNCHANGED <<fs, addons, project_path, idx, result>>

\* sync_recursive(..)? returned Ok: the next addon
AddonSynced ==
    /\ pc = "returned"
    /\ ret = "ok"
    /\ pc' = "loop"
    /\ idx' = idx + 1
    /\ UNCHANGED <<fs, addons, project_path, result, req, stack, seen, walk, ret, pre, calls>>

\* sync_recursive(..)? returned Err: sync_addons returns it
AddonFailed ==
    /\ pc = "returned"
    /\ ret = "err"
    /\ pc' = "done"
    /\ result' = "err"
    /\ UNCHANGED <<fs, addons, project_path, idx, req, stack, seen, walk, ret, pre, calls>>

\* the loop is over: Ok(())
AddonsDone ==
    /\ pc = "loop"
    /\ idx > Len(addons)
    /\ pc' = "done"
    /\ result' = "ok"
    /\ UNCHANGED <<fs, addons, project_path, idx, req, stack, seen, walk, ret, pre, calls>>

Next ==
    \/ SkipMissing \/ CallAddon \/ AddonSynced \/ AddonFailed \/ AddonsDone
    \/ SkipEntry \/ CopyEntry \/ FailEntry \/ ReturnOk

Spec == Init /\ [][Next]_vars

(***************************************************************************)
(* Properties.  They are stated with a prefix relation and a filter of     *)
(* their own, on the arguments and the file system of the current call of  *)
(* sync_recursive; pre is the file system when that call began.            *)
(***************************************************************************)
\* a is a component-wise prefix of b: equal to b or an ancestor of b
IsPrefix(a, b) == Len(a) <= Len(b) /\ SubSeq(b, 1, Len(a)) = a

ExcludedBy(p) == req.excludes.some /\ \E e \in req.excludes.list : IsPrefix(e, p)
IncludedBy(p) ==
    ~req.includes.some \/ \E i \in req.includes.list : IsPrefix(i, p) \/ IsPrefix(p, i)
Accepts(p) == ~ExcludedBy(p) /\ IncludedBy(p)

SrcOf(p) == req.source_base \o p
DestOf(p) == req.dest_base \o p

\* the path q is in g what it was in f
SameAt(f, g, q) == (q \in DOMAIN f <=> q \in DOMAIN g) /\ (q \in DOMAIN f => f[q] = g[q])

\* the relative path of the k-th entry of the loop, and of the entry it is at
RelOf(k) == SubSeq(walk[k].path, Len(req.source_base) + 1, Len(walk[k].path))
Cur == RelOf(Len(walk))
Walked == {RelOf(k) : k \in DOMAIN walk}

\* q is a file, q is a directory, whether or not the process can see it
FileAt(f, q) == q \in DOMAIN f /\ f[q].kind = "file"
DirAt(f, q) == q \in DOMAIN f /\ f[q].kind = "dir"

\* the source entry p is at the destination: as a directory, or as a file
\* with the source file's bytes
DoneAt(f, p) ==
    IF f[SrcOf(p)].kind = "dir"
    THEN DirAt(f, DestOf(p))
    ELSE FileAt(f, DestOf(p)) /\ f[DestOf(p)].data = f[SrcOf(p)].data

\* the traversal gets to the source entry p: the root's metadata can be
\* read, p exists and every directory above it can be listed
Yielded(p) ==
    /\ SrcOf(p) \in DOMAIN pre
    /\ Stat(pre, req.source_base)
    /\ \A q \in Prefixes(p) \ {p} : CanList(pre, SrcOf(q))

InCall == pc \in {"walk", "end", "returned"}

\* C1: a relative path that an exclude entry is a component-wise prefix of
\* is rejected by the filter, whatever the include list holds, and the call
\* creates and copies nothing at its destination path.
C1_ExcludeRejects ==
    req.excludes.some =>
        \A p \in RelPaths :
            ExcludedBy(p) =>
                /\ ~Passes(p, req.includes, req.excludes)
                /\ SameAt(pre, fs, DestOf(p))

\* an entry inside an included subtree was rejected by an exclude entry and
\* is absent from the destination, which the call did write to
C1_Witness ==
    /\ pc = "returned" /\ ret = "ok" /\ fs # pre
    /\ \E k \in DOMAIN walk :
        /\ walk[k].out = "skip"
        /\ ExcludedBy(RelOf(k))
        /\ req.includes.some /\ \E i \in req.includes.list : IsPrefix(i, RelOf(k))
        /\ DestOf(RelOf(k)) \notin DOMAIN fs

\* the filter has decided on the entry
Filtered == pc \in {"continue", "copy"}

\* C2: with an include list present and no exclude entry a prefix of p, the
\* filter accepts p exactly when an include entry is a component-wise prefix
\* of p or p is one of an include entry; addons2 is not matched by addons.
C2_IncludeIff ==
    /\ (Filtered /\ req.includes.some /\ ~ExcludedBy(Cur)) =>
          (pc = "copy" <=> \E i \in req.includes.list : IsPrefix(i, Cur) \/ IsPrefix(Cur, i))
    /\ (Filtered /\ req.includes = Some({<<"addons">>}) /\ Cur = <<"addons2">>)
          => pc = "continue"

\* the entry addons was accepted as an ancestor of the include entry
\* addons/addons2, the include entry addons2 matching nothing
C2_Witness ==
    /\ pc = "copy"
    /\ Cur = <<"addons">>
    /\ req.includes = Some({<<"addons", "addons2">>, <<"addons2">>})
    /\ req.excludes = Some({<<"addons2">>})

\* C10: the filter is closed under ancestors: when p passes, every
\* component-wise prefix of p, the empty path included, passes.
C10_AncestorClosed ==
    pc = "copy" =>
        \A q \in RelPaths : IsPrefix(q, Cur) => Passes(q, req.includes, req.excludes)

\* an entry two levels down was accepted under an include list that names
\* it and an exclude list that names its sibling
C10_Witness ==
    /\ pc = "copy"
    /\ Len(Cur) = 2
    /\ req.includes.some /\ Cur \in req.includes.list
    /\ req.excludes.some /\ req.excludes.list # {}
    /\ Accepts(Parent(Cur))

\* C3 as stated: after a successful return, every file of the source tree
\* whose relative path passes the filter is a file at the destination
\* holding the source file's bytes.
C3_EveryFileCopied ==
    (pc = "returned" /\ ret = "ok") =>
        \A p \in RelPaths :
            (FileAt(fs, SrcOf(p)) /\ Accepts(p)) => DoneAt(fs, p)

\* C3, amended: after a successful return, every file that the traversal
\* gets to (no directory above it failed to be listed) and whose relative
\* path passes the filter is a file at the destination holding the source
\* file's bytes, whatever the destination held there before the call.
C3_YieldedFileCopied ==
    (pc = "returned" /\ ret = "ok") =>
        \A p \in RelPaths :
            (FileAt(fs, SrcOf(p)) /\ Yielded(p) /\ Accepts(p)) => DoneAt(fs, p)

\* a destination file that held other bytes before the call holds the
\* source file's bytes after it
C3_Witness ==
    /\ pc = "returned" /\ ret = "ok"
    /\ \E p \in Walked :
        /\ FileAt(fs, SrcOf(p)) /\ Accepts(p)
        /\ FileAt(pre, DestOf(p)) /\ pre[DestOf(p)].data # fs[SrcOf(p)].data
        /\ DoneAt(fs, p)

\* C4: a relative path that fails the filter and is not at the destination
\* before the call is not there during or after it, not even as the parent
\* directory of a copied file: whatever the call adds below the destination
\* base passes the filter.
C4_NoFilteredOutEntry ==
    \A p \in RelPaths :
        (DestOf(p) \in DOMAIN fs /\ DestOf(p) \notin DOMAIN pre) => Accepts(p)

\* a file two levels down was copied, its parent directory made for it,
\* and a rejected entry of the same traversal is absent
C4_Witness ==
    /\ pc = "returned" /\ ret = "ok"
    /\ \E p \in Walked :
        /\ ~Accepts(p) /\ DestOf(p) \notin DOMAIN fs
    /\ \E q \in Walked :
        /\ Len(q) = 2 /\ FileAt(fs, SrcOf(q)) /\ DoneAt(fs, q)
        /\ DestOf(Parent(q)) \notin DOMAIN pre

\* the destination paths of the source entries that pass the filter
Touched == {DestOf(p) : p \in {r \in RelPaths : SrcOf(r) \in DOMAIN pre /\ Accepts(r)}}

\* C5: a destination path that exists before the call and is not the
\* destination of a source entry passing the filter exists unchanged
\* during and after the call, whether it succeeds or fails: a path that is
\* gone or changed is the destination of such an entry.
C5_NonDeletion ==
    LET touched == Touched
    IN \A q \in DOMAIN pre :
        ~(q \in DOMAIN fs /\ fs[q] = pre[q]) =>
            ~(IsPrefix(req.dest_base, q) /\ q \notin touched)

\* the call wrote to the destination and then failed; an entry that was
\* below the destination base before, and is no source entry's
\* destination, is as it was
C5_Witness ==
    /\ pc = "returned" /\ ret = "err" /\ fs # pre
    /\ \E q \in DOMAIN pre :
        /\ IsPrefix(req.dest_base, q) /\ q # req.dest_base /\ q \notin Touched
        /\ q \in DOMAIN fs /\ fs[q] = pre[q]

\* C6: a second call in a row with the same arguments leaves the
\* destination tree as the first call left it: the same paths, the same
\* bytes.
C6_Idempotent ==
    (pc = "returned" /\ Len(calls) >= 2) =>
        \A q \in DOMAIN pre \cup DOMAIN fs :
            IsPrefix(req.dest_base, q) => SameAt(pre, fs, q)

\* the second call returned, and a copied file is at the destination
C6_Witness ==
    /\ pc = "returned" /\ ret = "ok" /\ Len(calls) = 2
    /\ \E p \in Walked : FileAt(fs, SrcOf(p)) /\ Accepts(p) /\ DoneAt(fs, p)

\* C9: a traversal error is passed over in silence: when the loop is over,
\* every entry the traversal gets to has been an entry of the loop; each
\* entry was copied or skipped as the filter says; an error is returned
\* only for an accepted entry that cannot be created or copied; and after
\* a successful return every accepted entry the traversal got to is at the
\* destination.
C9_TraversalErrorSkipped ==
    InCall =>
        /\ (pc = "end" \/ ret = "ok") =>
              LET walked == Walked IN \A p \in RelPaths : Yielded(p) => p \in walked
        /\ \A k \in DOMAIN walk :
              /\ walk[k].out = "skip" => ~Accepts(RelOf(k))
              /\ walk[k].out \in {"copy", "fail"} => Accepts(RelOf(k))
        /\ ret = "err" =>
              /\ walk # <<>> /\ walk[Len(walk)].out = "fail"
              /\ ~PerformCopy(fs, walk[Len(walk)].path, req.dest_base, Cur).ok
        /\ (pc = "returned" /\ ret = "ok") =>
              \A p \in RelPaths : (Yielded(p) /\ Accepts(p)) => DoneAt(fs, p)

\* a directory of the source could not be listed; the call returned
\* success and an entry that the traversal yields after it was copied
C9_Witness ==
    /\ pc = "returned" /\ ret = "ok"
    /\ \E k \in DOMAIN walk :
        /\ DirAt(fs, walk[k].path) /\ ~CanList(fs, walk[k].path)
        /\ \E j \in DOMAIN walk :
            /\ j > k /\ FileAt(fs, walk[j].path)
            /\ DestOf(RelOf(j)) \notin DOMAIN pre /\ DoneAt(fs, RelOf(j))

\* the addons sync_recursive was called for
Synced == {calls[k] : k \in DOMAIN calls}

\* the addon's resolved source path exists
HasSource(i) == Exists(fs, SourceBase(addons[i]))

\* C7: sync_addons passes over an addon whose source path does not exist:
\* sync_recursive is not called for it and nothing is created for it, every
\* addon before the loop's position whose source exists was synced, and
\* sync_addons returns success unless a call of sync_recursive failed.
C7_MissingSourceSkipped ==
    /\ \A i \in Synced : HasSource(i)
    /\ calls = <<>> => fs = pre
    /\ \A i \in DOMAIN addons : (i < idx /\ HasSource(i)) => i \in Synced
    /\ pc = "done" => (result = "ok" <=> ret # "err")
    /\ result = "ok" => idx > Len(addons)

\* sync_addons returned success; the first addon's source was missing and
\* the second addon's file is at the destination
C7_Witness ==
    /\ pc = "done" /\ result = "ok"
    /\ Len(addons) = 2 /\ ~HasSource(1) /\ calls = <<2>>
    /\ \E p \in Walked : FileAt(fs, SrcOf(p)) /\ Accepts(p) /\ DoneAt(fs, p)

\* the iterator still holds an entry it has not yielded
EntriesLeft == \E i \in DOMAIN stack : stack[i].rest # <<>>

\* C8: a failure at an entry ends sync_recursive there with an error: the
\* failing entry is the last entry the loop comes to, what the entries
\* before it wrote is still at the destination, and sync_addons returns the
\* error with no addon after the failing one synced.
C8_FirstErrorAborts ==
    /\ InCall =>
          \A k \in DOMAIN walk :
              /\ walk[k].out = "fail" => (k = Len(walk) /\ ret = "err")
              /\ walk[k].out = "copy" => DestOf(RelOf(k)) \in DOMAIN fs
    /\ ret = "err" =>
          /\ pc \in {"returned", "done"}
          /\ walk # <<>> /\ walk[Len(walk)].out = "fail"
          /\ \A k \in DOMAIN walk :
                /\ walk[k].out = "fail" => k = Len(walk)
                /\ walk[k].out = "copy" => DestOf(RelOf(k)) \in DOMAIN fs
          /\ calls[Len(calls)] = idx
          /\ \A j \in DOMAIN addons : j > idx => j \notin Synced
    /\ pc = "done" => (result = "err" <=> ret = "err")

\* sync_addons returned the error of an addon that had written to the
\* destination; an entry of its traversal and an addon with a source were
\* still to come
C8_Witness ==
    /\ pc = "done" /\ result = "err" /\ fs # pre
    /\ EntriesLeft
    /\ idx < Len(addons) /\ HasSource(idx + 1)

====
